---- MODULE Spec2Model ----
(***************************************************************************)
(* Resilience and resource-pooling toolkit of the Go roadmap course.       *)
(*                                                                         *)
(* Part 1: ResilientHTTPClient (retry with exponential backoff and a       *)
(* circuit breaker), chapter 12 "External Services Integration".           *)
(*                                                                         *)
(* Several callers run DoWithRetry on one shared client.  The breaker      *)
(* fields failures / lastFailTime / state are only touched under c.mutex,  *)
(* so checkCircuitBreaker, recordSuccess and recordFailure are atomic      *)
(* steps; everything a caller does between them (request in flight,        *)
(* backoff wait) interleaves freely with the other callers.                *)
(*                                                                         *)
(* Time: the wall clock `now` counts whole seconds (ResetTimeout is 60 s). *)
(* Backoff delays are kept in milliseconds, as the source writes them;     *)
(* they are all shorter than the clock's grain, so the end of a backoff    *)
(* wait is not tied to a clock tick.                                       *)
(***************************************************************************)
EXTENDS Integers, Sequences, FiniteSets, TLC

(***************************************************************************)
(* Bounds of the model.                                                    *)
(***************************************************************************)
\* number of goroutines calling DoWithRetry on the shared client
NumCallers == 2
\* number of times the clock advances in one behaviour
MaxTicks == 3
\* rand.Float64() is drawn from {0/JitterDen, ..., (JitterDen-1)/JitterDen}
JitterDen == 3
\* poolSize handed to NewGRPCConnectionPool
PoolSize == 2
\* number of connections the factory can make in one behaviour
MaxConns == 3
\* maxWorkers handed to NewWorkerPool and to controlledConcurrency
MaxWorkers == 2
\* number of tasks handed to WorkerPool.Submit in one behaviour
NumSubmits == 3
\* len(tasks) handed to controlledConcurrency
NumTasks == 3
\* fanOutFanIn: the number of jobs, which is also the capacity of both channels
numJobs == 4
\* number of times the clock of rateLimiting advances in one behaviour
MaxRateSteps == 14
\* number of times the clock of the TTL cache advances in one behaviour
MaxCacheTime == 3
\* largest capacity handed to NewLRUCache
MaxCapacity == 2
\* largest attempt number handed to calculateDelay on its own
MaxAttemptN == 20

(***************************************************************************)
(* Program constants (NewResilientHTTPClient).                             *)
(***************************************************************************)
MaxRetries == 3
\* milliseconds
BaseDelay == 100
\* milliseconds
MaxDelay == 5000
Multiplier == 2
MaxFailures == 5
\* rateLimiting: the ticker's interval in ms and the number of requests
Interval == 500
NumRequests == 5
\* fanOutFanIn: the number of worker goroutines
numWorkers == 3
\* seconds
ResetTimeout == 60
\* the zero time.Time of a fresh client; the clock starts after it
ZeroTime == 0

\* CircuitState
Closed == "Closed"
Open == "Open"
HalfOpen == "HalfOpen"

Callers == 1..NumCallers

\* status codes a response may carry; an attempt may also end in a transport error
StatusCodes == {200, 404, 503}
Responses ==
    {[err |-> TRUE, code |-> 0]} \cup {[err |-> FALSE, code |-> s] : s \in StatusCodes}

\* one clock step: half a ResetTimeout, so that elapsed times below, at and above
\* ResetTimeout all occur
TickStep == ResetTimeout \div 2

VARIABLES
    \* ---- ResilientHTTPClient: circuit breaker fields ----
    failures, lastFailTime, state,
    \* ---- environment ----
    now,            \* time.Now(), seconds
    ticks,          \* clock steps taken so far
    \* ---- one DoWithRetry call per caller ----
    pc,             \* position of the caller inside DoWithRetry
    attempt,        \* loop variable
    lastErr,        \* lastErr
    delay,          \* delay of the current backoff wait, ms
    ctxDone,        \* ctx.Done() is closed
    ret,            \* what DoWithRetry returned
    retErr,         \* content of the error returned after a failed request
    \* ---- history of the current call ----
    hist,
    \* ---- history of the breaker ----
    openedAt,       \* time of the step that made state Open; ZeroTime while Closed
    streak,         \* recordFailure calls since the last recordSuccess
    \* ---- calculateDelay on its own ----
    dAttempt,       \* attempt number handed to calculateDelay
    dRand,          \* numerator of the rand.Float64() draw
    dDelay,         \* calculateDelay(dAttempt) with that draw, or NoDelay
    dFree,          \* calculateDelay(dAttempt) with a draw of 0, or NoDelay
    dPrev,          \* dFree of attempt dAttempt - 1, or NoDelay
    \* ---- GRPCConnectionPool ----
    pool,           \* buffer of the channel p.pool, oldest connection first
    closed,         \* p.closed
    \* ---- connections and their users ----
    conns,          \* connectivity state of every connection the factory made
    held,           \* connections handed out by Get and not yet given to Put
    created,        \* number of connections the factory has made
    closedBy,       \* for every connection, the operation that called conn.Close()
    lastOp,         \* the last call on the pool and what it returned
    \* ---- LRUCache ----
    capacity,       \* lru.capacity
    cache,          \* lru.cache: key -> list element, NoElem where the key is absent
    list,           \* lru.list: its elements, front first
    entries,        \* the *entry each list element carries
    \* ---- history of the LRUCache ----
    lruOp,          \* the last call on the cache and what it returned
    touched,        \* keys in the order of their last touch, latest first
    \* ---- WorkerPool ----
    workerChan,     \* buffer of p.workerChan, oldest work first
    quit,           \* p.quit is closed
    wpc,            \* position of every worker goroutine
    work,           \* the work function a worker is running, NoTask if none
    submitted,      \* how far every work function handed to Submit has come
    \* ---- history of the WorkerPool ----
    afterStop,      \* work functions whose Submit was called after Stop returned
    queuedAtStop,   \* work functions that sat in workerChan when Stop was called
    \* ---- controlledConcurrency ----
    semaphore,      \* number of tokens in the channel semaphore
    tpc,            \* position of every task's goroutine
    \* ---- Cache (TTL) ----
    data,           \* c.data: key -> CacheItem, NoItem where the key is absent
    cnow,           \* time.Now() as the cache reads it
    \* ---- history of the Cache ----
    lastSet,        \* for every key the CacheItem of its last Set, NoItem if never Set
    cacheOp,        \* the last call on the cache and what it returned
    \* ---- rateLimiting ----
    requests,       \* buffer of the closed channel requests, oldest first
    tickerC,        \* number of ticks in the buffer of ticker.C (capacity 1)
    rpc,            \* position of the loop
    req,            \* loop variable
    rnow,           \* time since the ticker was made, ms
    \* ---- history of rateLimiting ----
    ticksFired,     \* ticks the ticker has fired, delivered or dropped
    processed,      \* requests processed so far, in order
    lastStart,      \* time the last request was processed, NoTime if none
    prevStart,      \* time the request before it was processed, NoTime if none
    \* ---- fanOutFanIn ----
    jobs,           \* buffer of the channel jobs, oldest first
    jobsClosed,     \* close(jobs) has run
    results,        \* buffer of the channel results, oldest first
    fanpc,          \* position of every worker
    fanJob,         \* loop variable j of every worker, NoJob outside the loop body
    mainpc,         \* position of fanOutFanIn
    nextJob,        \* loop variable j of fanOutFanIn
    received,       \* results fanOutFanIn has received, in order
    \* ---- history of fanOutFanIn ----
    takes,          \* job -> number of times a worker received it from jobs
    produced        \* job -> number of results sent for it

cbVars == <<failures, lastFailTime, state>>
callVars == <<pc, attempt, lastErr, delay, ctxDone, ret, retErr, hist>>
clientVars == <<failures, lastFailTime, state, now, ticks, pc, attempt, lastErr,
                delay, ctxDone, ret, retErr, hist, openedAt, streak>>
delayVars == <<dAttempt, dRand, dDelay, dFree, dPrev>>
poolVars == <<pool, closed, conns, held, created, closedBy, lastOp>>
lruVars == <<capacity, cache, list, entries, lruOp, touched>>
workerVars == <<workerChan, quit, wpc, work, submitted, afterStop, queuedAtStop,
                semaphore, tpc>>
ttlVars == <<data, cnow, lastSet, cacheOp>>
rateVars == <<requests, tickerC, rpc, req, rnow, ticksFired, processed, lastStart,
              prevStart>>
fanVars == <<jobs, jobsClosed, results, fanpc, fanJob, mainpc, nextJob, received,
             takes, produced>>
restVars == <<ttlVars, rateVars, fanVars>>
vars == <<clientVars, delayVars, poolVars, lruVars, workerVars, restVars>>

\* what a step of the client leaves alone, what a step of calculateDelay on its
\* own leaves alone, and what a step of the connection pool leaves alone
notClient == <<delayVars, poolVars, lruVars, workerVars, restVars>>
notDelay == <<clientVars, poolVars, lruVars, workerVars, restVars>>
notPool == <<clientVars, delayVars, lruVars, workerVars, restVars>>
notLRU == <<clientVars, delayVars, poolVars, workerVars, restVars>>
notWorkers == <<clientVars, delayVars, poolVars, lruVars, restVars>>
firstVars == <<clientVars, delayVars, poolVars, lruVars, workerVars>>
notTTL == <<firstVars, rateVars, fanVars>>
notRate == <<firstVars, ttlVars, fanVars>>
notFan == <<firstVars, ttlVars, rateVars>>

(***************************************************************************)
(* Pure functions.                                                         *)
(***************************************************************************)
RECURSIVE Pow(_, _)
\* math.Pow(base, e) for a whole exponent e >= 0
Pow(base, e) == IF e = 0 THEN 1 ELSE base * Pow(base, e - 1)

\* calculateDelay with the exponent off by one (attempt instead of attempt-1)
calculateDelayOffByOne(n, r) ==
    LET d0 == BaseDelay * Pow(Multiplier, n)
        jitter == (r * d0) \div (10 * JitterDen)
        d1 == d0 + jitter
    IN  IF d1 > MaxDelay THEN MaxDelay ELSE d1

\* calculateDelay that clamps before it adds the jitter
calculateDelayClampFirst(n, r) ==
    LET d0 == BaseDelay * Pow(Multiplier, n - 1)
        d1 == IF d0 > MaxDelay THEN MaxDelay ELSE d0
        jitter == (r * d1) \div (10 * JitterDen)
    IN  d1 + jitter

\* calculateDelay(attempt) with rand.Float64() = r / JitterDen; durations in ms,
\* time.Duration(delay) truncates
calculateDelay(n, r) ==
    LET d0 == BaseDelay * Pow(Multiplier, n - 1)
        jitter == (r * d0) \div (10 * JitterDen)
        d1 == d0 + jitter
    IN  IF d1 > MaxDelay THEN MaxDelay ELSE d1

isSuccessStatusCode(code) == code >= 200 /\ code < 300

\* shouldRetry that retries every failed attempt
shouldRetryAlways(resp) == TRUE

shouldRetry(resp) ==
    IF resp.err THEN TRUE
    ELSE resp.code \in {429, 500, 502, 503, 504}

\* the breaker as a value
Breaker(f, l, s) == [failures |-> f, lastFailTime |-> l, state |-> s]

\* checkCircuitBreaker with the comparison reversed: half-opens before the timeout
checkCircuitBreakerNoWait(b, t) ==
    IF b.state = Open
    THEN IF t - b.lastFailTime < ResetTimeout
         THEN [cb |-> [b EXCEPT !.state = HalfOpen], err |-> FALSE]
         ELSE [cb |-> b, err |-> TRUE]
    ELSE [cb |-> b, err |-> FALSE]

\* checkCircuitBreaker that lets calls through an open breaker
checkCircuitBreakerAdmitAll(b, t) ==
    IF b.state = Open /\ t - b.lastFailTime > ResetTimeout
    THEN [cb |-> [b EXCEPT !.state = HalfOpen], err |-> FALSE]
    ELSE [cb |-> b, err |-> FALSE]

\* checkCircuitBreaker that counts a rejection as a failure
checkCircuitBreakerCountsRejection(b, t) ==
    IF b.state = Open
    THEN IF t - b.lastFailTime > ResetTimeout
         THEN [cb |-> [b EXCEPT !.state = HalfOpen], err |-> FALSE]
         ELSE [cb |-> [b EXCEPT !.failures = @ + 1, !.lastFailTime = t], err |-> TRUE]
    ELSE [cb |-> b, err |-> FALSE]

\* checkCircuitBreaker at time t: the breaker afterwards and whether an error is returned
checkCircuitBreaker(b, t) ==
    IF b.state = Open
    THEN IF t - b.lastFailTime > ResetTimeout
         THEN [cb |-> [b EXCEPT !.state = HalfOpen], err |-> FALSE]
         ELSE [cb |-> b, err |-> TRUE]
    ELSE [cb |-> b, err |-> FALSE]

\* recordSuccess that forgets to reset the failure count
recordSuccessKeepsCount(b) == [b EXCEPT !.state = Closed]

recordSuccess(b) == [b EXCEPT !.failures = 0, !.state = Closed]

\* recordFailure that opens one failure late (> instead of >=)
recordFailureLate(b, t) ==
    LET f == b.failures + 1
    IN  [failures |-> f,
         lastFailTime |-> t,
         state |-> IF f > MaxFailures THEN Open ELSE b.state]

recordFailure(b, t) ==
    LET f == b.failures + 1
    IN  [failures |-> f,
         lastFailTime |-> t,
         state |-> IF f >= MaxFailures THEN Open ELSE b.state]

(***************************************************************************)
(* State.                                                                  *)
(***************************************************************************)
cb == Breaker(failures, lastFailTime, state)

SetBreaker(b) ==
    /\ failures' = b.failures
    /\ lastFailTime' = b.lastFailTime
    /\ state' = b.state

NoErr == [kind |-> "nil", code |-> 0]

\* history of a call that has not started
NoHist == [nreq |-> 0, nwait |-> 0, nsucc |-> 0, nfail |-> 0,
           trial |-> FALSE, allRetryable |-> TRUE, rand |-> 0,
           lastResp |-> [err |-> FALSE, code |-> 0], cancelledInWait |-> FALSE]

\* no request-failed error
NoRetErr == [attempts |-> 0, wrapped |-> NoErr]

\* fmt.Errorf("request failed after %d attempts: %w", c.retryConfig.MaxRetries+1, lastErr)
requestFailedError(e) == [attempts |-> MaxRetries + 1, wrapped |-> e]

InitClient ==
    /\ failures = 0
    /\ lastFailTime = ZeroTime
    /\ state = Closed
    /\ now = ZeroTime + 1
    /\ ticks = 0
    /\ pc = [p \in Callers |-> "idle"]
    /\ attempt = [p \in Callers |-> 0]
    /\ lastErr = [p \in Callers |-> NoErr]
    /\ delay = [p \in Callers |-> 0]
    /\ ctxDone = [p \in Callers |-> FALSE]
    /\ ret = [p \in Callers |-> "none"]
    /\ retErr = [p \in Callers |-> NoRetErr]
    /\ hist = [p \in Callers |-> NoHist]
    /\ openedAt = ZeroTime
    /\ streak = 0

NoDelay == -1

IdleDelay ==
    /\ dAttempt = 1
    /\ dRand = 0
    /\ dDelay = NoDelay
    /\ dFree = NoDelay
    /\ dPrev = NoDelay

(***************************************************************************)
(* Part 3: LRUCache, chapter 10 "Performance Optimization".                *)
(*                                                                         *)
(* Get and Put hold lru.mu from their first statement to their return, so  *)
(* each call is one atomic step, also when several goroutines call them.   *)
(* The elements of lru.list are numbered; an element taken off the list    *)
(* gives its number back.                                                  *)
(***************************************************************************)
LruKeys == {"a", "b", "c"}
LruValues == {1, 2}
ElemIds == 1..(MaxCapacity + 1)
NoElem == 0
NoKey == "-"
NoValue == 0
NoEntry == [key |-> NoKey, value |-> NoValue]

\* a call on the cache: what was called, what it found or evicted, and the call
\* before it
NoCall == [op |-> "none", key |-> NoKey, value |-> NoValue]
NoLruOp == [op |-> "none", key |-> NoKey, value |-> NoValue, found |-> FALSE,
            evicted |-> NoKey, flip |-> 0, prev |-> NoCall]
ThisCall == [op |-> lruOp.op, key |-> lruOp.key, value |-> lruOp.value]

\* NewLRUCache(c)
NewLRUCache(c) ==
    /\ capacity = c
    /\ cache = [k \in LruKeys |-> NoElem]
    /\ list = <<>>
    /\ entries = [e \in ElemIds |-> NoEntry]
    /\ lruOp = NoLruOp
    /\ touched = <<>>

\* the cache while another component is looked at on its own
IdleLRU == NewLRUCache(MaxCapacity)

(***************************************************************************)
(* Part 4: WorkerPool and the semaphore of controlledConcurrency, chapter  *)
(* 10 "Performance Optimization".                                          *)
(*                                                                         *)
(* Every channel operation is one step.  A send on the buffered channel    *)
(* workerChan is enabled while the buffer has room, a receive while it is  *)
(* not empty; a worker whose select finds both workerChan and quit ready   *)
(* takes either.  loadTest and LoadTester.RunTest use the same semaphore   *)
(* pattern as controlledConcurrency: a goroutine per task, which sends on  *)
(* the semaphore channel before its work and receives from it after.       *)
(***************************************************************************)
Workers == 1..MaxWorkers
Submits == 1..NumSubmits
Tasks == 1..NumTasks
NoTask == 0

\* NewWorkerPool(MaxWorkers): the buffered channel, the open quit channel and
\* MaxWorkers worker goroutines at their select
NewWorkerPool ==
    /\ workerChan = <<>>
    /\ quit = FALSE
    /\ wpc = [w \in Workers |-> "select"]
    /\ work = [w \in Workers |-> NoTask]
    /\ submitted = [t \in Submits |-> "new"]
    /\ afterStop = {}
    /\ queuedAtStop = {}

\* controlledConcurrency(tasks, MaxWorkers) at its first statement
StartControlled ==
    /\ semaphore = 0
    /\ tpc = [t \in Tasks |-> "unstarted"]

\* the workers while another component is looked at on its own
IdleWorkers == NewWorkerPool /\ StartControlled

(***************************************************************************)
(* Part 5: the in-memory Cache with expiration, chapter 10 "Performance    *)
(* Optimization".                                                          *)
(*                                                                         *)
(* Set and the body of cleanup hold c.mu, Get holds the read lock, and     *)
(* each reads time.Now() once: every call is one atomic step at the time   *)
(* cnow.  The clock advances between the calls.                            *)
(***************************************************************************)
CacheKeys == {"a", "b"}
CacheValues == {1, 2}
\* time-to-live values handed to Set, in clock steps
TTLs == {0, 2}
NoItem == [value |-> NoValue, expiration |-> -1]
NoCacheOp == [op |-> "none", key |-> NoKey, value |-> NoValue, found |-> FALSE,
              flip |-> 0]

\* NewCache(): the empty map; the cleanup goroutine is started
NewCache ==
    /\ data = [k \in CacheKeys |-> NoItem]
    /\ cnow = 0
    /\ lastSet = [k \in CacheKeys |-> NoItem]
    /\ cacheOp = NoCacheOp

(***************************************************************************)
(* Part 6: rateLimiting, chapter 3 "Concurrency Programming".              *)
(*                                                                         *)
(* The ticker fires every Interval and puts a tick in the one-place buffer *)
(* of ticker.C, or drops it when the buffer is occupied.  The loop is a    *)
(* goroutine like any other: when it runs relative to the clock is up to   *)
(* the scheduler.  The clock advances in steps of half an Interval.        *)
(***************************************************************************)
TimeStep == Interval \div 2
NoTime == -1
NoReq == 0

\* rateLimiting after the ticker was made and the requests were queued and the
\* channel closed
StartRateLimiting ==
    /\ requests = [i \in 1..NumRequests |-> i]
    /\ tickerC = 0
    /\ rpc = "range"
    /\ req = NoReq
    /\ rnow = 0
    /\ ticksFired = 0
    /\ processed = <<>>
    /\ lastStart = NoTime
    /\ prevStart = NoTime

(***************************************************************************)
(* Part 7: worker and fanOutFanIn, chapter 3 "Concurrency Programming".    *)
(*                                                                         *)
(* numWorkers goroutines range over the channel jobs and send one result   *)
(* for every job to the channel results; fanOutFanIn sends the jobs,       *)
(* closes jobs and receives numJobs results.  Both channels have room for  *)
(* numJobs values.                                                         *)
(***************************************************************************)
FanWorkers == 1..numWorkers
Jobs == 1..numJobs
NoJob == 0

\* fanOutFanIn after the channels were made and the workers started
StartFanOutFanIn ==
    /\ jobs = <<>>
    /\ jobsClosed = FALSE
    /\ results = <<>>
    /\ fanpc = [w \in FanWorkers |-> "range"]
    /\ fanJob = [w \in FanWorkers |-> NoJob]
    /\ mainpc = "send"
    /\ nextJob = 1
    /\ received = <<>>
    /\ takes = [j \in Jobs |-> 0]
    /\ produced = [j \in Jobs |-> 0]

\* the components of parts 5 and later while another one is looked at on its own
IdleRest == NewCache /\ StartRateLimiting /\ StartFanOutFanIn

(***************************************************************************)
(* DoWithRetry, one step at a time.                                        *)
(***************************************************************************)
\* DoWithRetry returns: its locals are gone, the caller holds the result
DropLocals(p) ==
    /\ attempt' = [attempt EXCEPT ![p] = 0]
    /\ lastErr' = [lastErr EXCEPT ![p] = NoErr]
    /\ delay' = [delay EXCEPT ![p] = 0]
    /\ ctxDone' = [ctxDone EXCEPT ![p] = FALSE]

\* entry: checkCircuitBreaker under the mutex; a rejected call returns at once
Begin(p) ==
    /\ pc[p] = "idle"
    /\ LET r == checkCircuitBreaker(cb, now)
       IN  /\ SetBreaker(r.cb)
           /\ IF r.err
              THEN /\ pc' = [pc EXCEPT ![p] = "done"]
                   /\ ret' = [ret EXCEPT ![p] = "breaker_open"]
                   /\ hist' = [hist EXCEPT ![p] = NoHist]
              ELSE /\ pc' = [pc EXCEPT ![p] = "attempt"]
                   /\ ret' = [ret EXCEPT ![p] = "none"]
                   /\ hist' = [hist EXCEPT ![p] =
                                 [NoHist EXCEPT !.trial = (r.cb.state = HalfOpen)]]
    /\ attempt' = [attempt EXCEPT ![p] = 0]
    /\ lastErr' = [lastErr EXCEPT ![p] = NoErr]
    /\ ctxDone' = [ctxDone EXCEPT ![p] = FALSE]
    /\ UNCHANGED <<now, ticks, delay, retErr, openedAt, streak>>
    /\ UNCHANGED notClient

\* c.doRequest is called: the request of this attempt goes out
StartRequest(p) ==
    /\ pc[p] = "attempt"
    /\ pc' = [pc EXCEPT ![p] = "inflight"]
    /\ hist' = [hist EXCEPT ![p].nreq = @ + 1]
    /\ UNCHANGED <<cbVars, now, ticks, attempt, lastErr, delay, ctxDone, ret, retErr,
                   openedAt, streak>>
    /\ UNCHANGED notClient

\* Response that calls recordFailure after every failed attempt, retried or not
ResponseRecordsEachAttempt(p, resp) ==
    /\ pc[p] = "inflight"
    /\ ctxDone[p] => resp.err
    /\ IF ~resp.err /\ isSuccessStatusCode(resp.code)
       THEN /\ pc' = [pc EXCEPT ![p] = "recordSuccess"]
            /\ hist' = [hist EXCEPT ![p].allRetryable = FALSE,
                                    ![p].lastResp = resp]
            /\ UNCHANGED <<attempt, lastErr, delay, cbVars>>
       ELSE /\ SetBreaker(recordFailure(cb, now))
            /\ lastErr' = [lastErr EXCEPT ![p] =
                             IF resp.err THEN [kind |-> "net", code |-> 0]
                             ELSE [kind |-> "http", code |-> resp.code]]
            /\ IF ~shouldRetry(resp)
               THEN /\ pc' = [pc EXCEPT ![p] = "recordFailure"]
                    /\ hist' = [hist EXCEPT ![p].allRetryable = FALSE,
                                            ![p].lastResp = resp]
                    /\ UNCHANGED <<attempt, delay>>
               ELSE /\ attempt' = [attempt EXCEPT ![p] = @ + 1]
                    /\ IF attempt[p] + 1 <= MaxRetries
                       THEN \E r \in 0..(JitterDen - 1) :
                              /\ delay' = [delay EXCEPT ![p] =
                                             calculateDelay(attempt[p] + 1, r)]
                              /\ hist' = [hist EXCEPT ![p].nwait = @ + 1,
                                                      ![p].rand = r,
                                                      ![p].lastResp = resp]
                              /\ pc' = [pc EXCEPT ![p] = "wait"]
                       ELSE /\ pc' = [pc EXCEPT ![p] = "recordFailure"]
                            /\ hist' = [hist EXCEPT ![p].lastResp = resp]
                            /\ UNCHANGED delay
    /\ UNCHANGED <<now, ticks, ctxDone, ret, retErr, openedAt, streak>>
    /\ UNCHANGED notClient

\* doRequest returns resp; the rest of the loop body up to the next blocking point
Response(p, resp) ==
    /\ pc[p] = "inflight"
    /\ ctxDone[p] => resp.err
    /\ IF ~resp.err /\ isSuccessStatusCode(resp.code)
       THEN /\ pc' = [pc EXCEPT ![p] = "recordSuccess"]
            /\ hist' = [hist EXCEPT ![p].allRetryable = FALSE,
                                    ![p].lastResp = resp]
            /\ UNCHANGED <<attempt, lastErr, delay>>
       ELSE /\ lastErr' = [lastErr EXCEPT ![p] =
                             IF resp.err THEN [kind |-> "net", code |-> 0]
                             ELSE [kind |-> "http", code |-> resp.code]]
            /\ IF ~shouldRetry(resp)
               THEN /\ pc' = [pc EXCEPT ![p] = "recordFailure"]
                    /\ hist' = [hist EXCEPT ![p].allRetryable = FALSE,
                                            ![p].lastResp = resp]
                    /\ UNCHANGED <<attempt, delay>>
               ELSE /\ attempt' = [attempt EXCEPT ![p] = @ + 1]
                    /\ IF attempt[p] + 1 <= MaxRetries
                       THEN \E r \in 0..(JitterDen - 1) :
                              /\ delay' = [delay EXCEPT ![p] =
                                             calculateDelay(attempt[p] + 1, r)]
                              /\ hist' = [hist EXCEPT ![p].nwait = @ + 1,
                                                      ![p].rand = r,
                                                      ![p].lastResp = resp]
                              /\ pc' = [pc EXCEPT ![p] = "wait"]
                       ELSE /\ pc' = [pc EXCEPT ![p] = "recordFailure"]
                            /\ hist' = [hist EXCEPT ![p].lastResp = resp]
                            /\ UNCHANGED delay
    /\ UNCHANGED <<cbVars, now, ticks, ctxDone, ret, retErr, openedAt, streak>>
    /\ UNCHANGED notClient

\* the select of the backoff wait with the timer case dropping the guard: the timer
\* wins although the context was cancelled while the call was blocked
BackoffElapsedIgnoresCancel(p) ==
    /\ pc[p] = "wait"
    /\ pc' = [pc EXCEPT ![p] = "attempt"]
    /\ delay' = [delay EXCEPT ![p] = 0]
    /\ hist' = [hist EXCEPT ![p].rand = 0]
    /\ UNCHANGED <<cbVars, now, ticks, attempt, lastErr, ctxDone, ret, retErr,
                   openedAt, streak>>
    /\ UNCHANGED notClient

\* case <-time.After(delay): the timer fires while the call is blocked in the select.
\* A call blocked in a select takes the first case that becomes ready, so the timer
\* case is out once the context was cancelled during the wait.  (A context cancelled
\* before the select was entered leaves both outcomes: the select then picks among
\* the cases that are ready when it polls.)
BackoffElapsed(p) ==
    /\ pc[p] = "wait"
    /\ ~hist[p].cancelledInWait
    /\ pc' = [pc EXCEPT ![p] = "attempt"]
    /\ delay' = [delay EXCEPT ![p] = 0]
    /\ hist' = [hist EXCEPT ![p].rand = 0]
    /\ UNCHANGED <<cbVars, now, ticks, attempt, lastErr, ctxDone, ret, retErr,
                   openedAt, streak>>
    /\ UNCHANGED notClient

\* the cancelled wait that reports a failure to the breaker before it returns
BackoffCancelledRecordsFailure(p) ==
    /\ pc[p] = "wait"
    /\ ctxDone[p]
    /\ SetBreaker(recordFailure(cb, now))
    /\ pc' = [pc EXCEPT ![p] = "done"]
    /\ ret' = [ret EXCEPT ![p] = "ctx_err"]
    /\ UNCHANGED retErr
    /\ hist' = [hist EXCEPT ![p].rand = 0]
    /\ DropLocals(p)
    /\ UNCHANGED <<now, ticks, openedAt, streak>>
    /\ UNCHANGED notClient

\* case <-ctx.Done(): return nil, ctx.Err()
BackoffCancelled(p) ==
    /\ pc[p] = "wait"
    /\ ctxDone[p]
    /\ pc' = [pc EXCEPT ![p] = "done"]
    /\ ret' = [ret EXCEPT ![p] = "ctx_err"]
    /\ UNCHANGED retErr
    /\ hist' = [hist EXCEPT ![p].rand = 0]
    /\ DropLocals(p)
    /\ UNCHANGED <<cbVars, now, ticks, openedAt, streak>>
    /\ UNCHANGED notClient

\* c.recordSuccess(); return resp, nil
RecordSuccess(p) ==
    /\ pc[p] = "recordSuccess"
    /\ SetBreaker(recordSuccess(cb))
    /\ pc' = [pc EXCEPT ![p] = "done"]
    /\ ret' = [ret EXCEPT ![p] = "ok"]
    /\ UNCHANGED retErr
    /\ hist' = [hist EXCEPT ![p].nsucc = @ + 1]
    /\ streak' = 0
    /\ openedAt' = IF state' = Closed THEN ZeroTime ELSE openedAt
    /\ DropLocals(p)
    /\ UNCHANGED <<now, ticks>>
    /\ UNCHANGED notClient

\* c.recordFailure(); return nil, fmt.Errorf(...)
RecordFailure(p) ==
    /\ pc[p] = "recordFailure"
    /\ SetBreaker(recordFailure(cb, now))
    /\ pc' = [pc EXCEPT ![p] = "done"]
    /\ ret' = [ret EXCEPT ![p] = "failed"]
    /\ retErr' = [retErr EXCEPT ![p] = requestFailedError(lastErr[p])]
    /\ hist' = [hist EXCEPT ![p].nfail = @ + 1]
    /\ streak' = streak + 1
    /\ openedAt' = IF state # Open /\ state' = Open THEN now ELSE openedAt
    /\ DropLocals(p)
    /\ UNCHANGED <<now, ticks>>
    /\ UNCHANGED notClient

\* the caller takes the result; its next call starts from scratch
Return(p) ==
    /\ pc[p] = "done"
    /\ pc' = [pc EXCEPT ![p] = "idle"]
    /\ ret' = [ret EXCEPT ![p] = "none"]
    /\ retErr' = [retErr EXCEPT ![p] = NoRetErr]
    /\ hist' = [hist EXCEPT ![p] = NoHist]
    /\ UNCHANGED <<cbVars, now, ticks, attempt, lastErr, delay, ctxDone,
                   openedAt, streak>>
    /\ UNCHANGED notClient

\* the caller's context is cancelled while the call is in its retry loop
Cancel(p) ==
    /\ pc[p] \in {"attempt", "inflight", "wait"}
    /\ ~ctxDone[p]
    /\ ctxDone' = [ctxDone EXCEPT ![p] = TRUE]
    /\ hist' = [hist EXCEPT ![p].cancelledInWait = (pc[p] = "wait")]
    /\ UNCHANGED <<cbVars, now, ticks, pc, attempt, lastErr, delay, ret, retErr,
                   openedAt, streak>>
    /\ UNCHANGED notClient

\* time passes
Tick ==
    /\ ticks < MaxTicks
    /\ now' = now + TickStep
    /\ ticks' = ticks + 1
    /\ UNCHANGED <<cbVars, callVars, openedAt, streak>>
    /\ UNCHANGED notClient

DoWithRetry(p) ==
    \/ Begin(p)
    \/ StartRequest(p)
    \/ \E resp \in Responses : Response(p, resp)
    \/ BackoffElapsed(p)
    \/ BackoffCancelled(p)
    \/ RecordSuccess(p)
    \/ RecordFailure(p)
    \/ Return(p)

(***************************************************************************)
(* Part 2: GRPCConnectionPool.                                             *)
(*                                                                         *)
(* Get, Put and Close run under p.mu from their first statement that       *)
(* touches the pool to their return, so each call is one atomic step.      *)
(* Connections are numbered in the order the factory makes them; a         *)
(* connection's connectivity state changes under the pool's feet, between  *)
(* the calls.                                                              *)
(***************************************************************************)
ConnIds == 1..MaxConns
NoConn == 0

\* connectivity.State of a connection; "absent" before the factory has made it
ConnStates == {"Idle", "Connecting", "Ready", "TransientFailure", "Shutdown"}

\* conn.GetState() == connectivity.Ready || conn.GetState() == connectivity.Idle
usable(h) == conns[h] \in {"Ready", "Idle"}

\* connections sitting in the channel
idle == {pool[i] : i \in 1..Len(pool)}

NoOp == [op |-> "none", conn |-> NoConn, err |-> "nil", dialed |-> FALSE,
         dropped |-> NoConn]

\* NewGRPCConnectionPool(address, PoolSize) with k of its PoolSize dials successful
NewGRPCConnectionPool(k) ==
    /\ pool = [i \in 1..k |-> i]
    /\ closed = FALSE
    /\ conns = [h \in ConnIds |-> IF h <= k THEN "Idle" ELSE "absent"]
    /\ held = {}
    /\ created = k
    /\ closedBy = [h \in ConnIds |-> "none"]
    /\ lastOp = NoOp

\* the pool while the client or calculateDelay is looked at on its own
IdlePool == NewGRPCConnectionPool(PoolSize)

\* return p.factory(): grpc.Dial yields a new connection or an error
factory(drop) ==
    /\ created < MaxConns
    /\ \/ /\ created' = created + 1
          /\ conns' = [conns EXCEPT ![created + 1] = "Idle"]
          /\ held' = held \cup {created + 1}
          /\ lastOp' = [op |-> "Get", conn |-> created + 1, err |-> "nil",
                        dialed |-> TRUE, dropped |-> drop]
       \/ /\ lastOp' = [op |-> "Get", conn |-> NoConn, err |-> "dial",
                        dialed |-> TRUE, dropped |-> drop]
          /\ UNCHANGED <<created, conns, held>>

\* Get without the test of p.closed
GetIgnoresClosed ==
    /\ IF pool # <<>>
       THEN /\ pool' = Tail(pool)
            /\ IF usable(Head(pool))
               THEN /\ held' = held \cup {Head(pool)}
                    /\ lastOp' = [op |-> "Get", conn |-> Head(pool), err |-> "nil",
                                  dialed |-> FALSE, dropped |-> NoConn]
                    /\ UNCHANGED <<created, conns>>
               ELSE factory(Head(pool))
       ELSE /\ UNCHANGED pool
            /\ factory(NoConn)
    /\ UNCHANGED <<closed, closedBy>>
    /\ UNCHANGED notPool

\* Get that hands out whatever connection it receives from the channel
GetSkipsStateCheck ==
    /\ IF closed
       THEN /\ lastOp' = [op |-> "Get", conn |-> NoConn, err |-> "closed",
                          dialed |-> FALSE, dropped |-> NoConn]
            /\ UNCHANGED <<pool, created, conns, held>>
       ELSE IF pool # <<>>
       THEN /\ pool' = Tail(pool)
            /\ held' = held \cup {Head(pool)}
            /\ lastOp' = [op |-> "Get", conn |-> Head(pool), err |-> "nil",
                          dialed |-> FALSE, dropped |-> NoConn]
            /\ UNCHANGED <<created, conns>>
       ELSE /\ UNCHANGED pool
            /\ factory(NoConn)
    /\ UNCHANGED <<closed, closedBy>>
    /\ UNCHANGED notPool

\* func (p *GRPCConnectionPool) Get() (*grpc.ClientConn, error)
\*   closed: the pool-closed error;
\*   case conn := <-p.pool: conn if it is Ready or Idle, else (fallthrough) the
\*     connection is let go of and the factory is asked;
\*   default (channel empty): the factory is asked.
Get ==
    /\ IF closed
       THEN /\ lastOp' = [op |-> "Get", conn |-> NoConn, err |-> "closed",
                          dialed |-> FALSE, dropped |-> NoConn]
            /\ UNCHANGED <<pool, created, conns, held>>
       ELSE IF pool # <<>>
       THEN /\ pool' = Tail(pool)
            /\ IF usable(Head(pool))
               THEN /\ held' = held \cup {Head(pool)}
                    /\ lastOp' = [op |-> "Get", conn |-> Head(pool), err |-> "nil",
                                  dialed |-> FALSE, dropped |-> NoConn]
                    /\ UNCHANGED <<created, conns>>
               ELSE factory(Head(pool))
       ELSE /\ UNCHANGED pool
            /\ factory(NoConn)
    /\ UNCHANGED <<closed, closedBy>>
    /\ UNCHANGED notPool

\* Put without the test of p.closed: on a closed pool the send is a send on a closed
\* channel, which panics
PutIgnoresClosed(h) ==
    /\ h \in held
    /\ held' = held \ {h}
    /\ IF closed
       THEN /\ lastOp' = [op |-> "Put", conn |-> h, err |-> "panic", dialed |-> FALSE,
                          dropped |-> NoConn]
            /\ UNCHANGED <<pool, conns, closedBy>>
       ELSE /\ lastOp' = [op |-> "Put", conn |-> h, err |-> "nil", dialed |-> FALSE,
                          dropped |-> NoConn]
            /\ IF Len(pool) < PoolSize
               THEN /\ pool' = Append(pool, h)
                    /\ UNCHANGED <<conns, closedBy>>
               ELSE /\ conns' = [conns EXCEPT ![h] = "Shutdown"]
                    /\ closedBy' = [closedBy EXCEPT ![h] = "PutFull"]
                    /\ UNCHANGED pool
    /\ UNCHANGED <<closed, created>>
    /\ UNCHANGED notPool

\* Put whose send on the channel has no default case taken: the connection is
\* stored whether or not the channel has room
PutAlwaysStores(h) ==
    /\ h \in held
    /\ held' = held \ {h}
    /\ lastOp' = [op |-> "Put", conn |-> h, err |-> "nil", dialed |-> FALSE,
                  dropped |-> NoConn]
    /\ IF closed
       THEN /\ conns' = [conns EXCEPT ![h] = "Shutdown"]
            /\ closedBy' = [closedBy EXCEPT ![h] = "PutClosed"]
            /\ UNCHANGED pool
       ELSE /\ pool' = Append(pool, h)
            /\ UNCHANGED <<conns, closedBy>>
    /\ UNCHANGED <<closed, created>>
    /\ UNCHANGED notPool

\* func (p *GRPCConnectionPool) Put(conn *grpc.ClientConn), conn a connection that a
\* Get handed out
\*   closed: conn.Close();
\*   case p.pool <- conn: stored when the channel has room;
\*   default: conn.Close().
Put(h) ==
    /\ h \in held
    /\ held' = held \ {h}
    /\ lastOp' = [op |-> "Put", conn |-> h, err |-> "nil", dialed |-> FALSE,
                  dropped |-> NoConn]
    /\ IF closed
       THEN /\ conns' = [conns EXCEPT ![h] = "Shutdown"]
            /\ closedBy' = [closedBy EXCEPT ![h] = "PutClosed"]
            /\ UNCHANGED pool
       ELSE IF Len(pool) < PoolSize
       THEN /\ pool' = Append(pool, h)
            /\ UNCHANGED <<conns, closedBy>>
       ELSE /\ conns' = [conns EXCEPT ![h] = "Shutdown"]
            /\ closedBy' = [closedBy EXCEPT ![h] = "PutFull"]
            /\ UNCHANGED pool
    /\ UNCHANGED <<closed, created>>
    /\ UNCHANGED notPool

\* Put(nil): if conn == nil { return }
PutNil ==
    /\ lastOp' = [op |-> "Put", conn |-> NoConn, err |-> "nil", dialed |-> FALSE,
                  dropped |-> NoConn]
    /\ UNCHANGED <<pool, closed, conns, held, created, closedBy>>
    /\ UNCHANGED notPool

\* Close that marks the pool closed and leaves the channel's buffer as it is
CloseKeepsIdle ==
    /\ lastOp' = [op |-> "Close", conn |-> NoConn, err |-> "nil", dialed |-> FALSE,
                  dropped |-> NoConn]
    /\ closed' = TRUE
    /\ UNCHANGED <<pool, conns, closedBy>>
    /\ UNCHANGED <<held, created>>
    /\ UNCHANGED notPool

\* func (p *GRPCConnectionPool) Close()
\*   closed already: return; else p.closed = true, close(p.pool), and every
\*   connection still in the channel is received and closed.
Close ==
    /\ lastOp' = [op |-> "Close", conn |-> NoConn, err |-> "nil", dialed |-> FALSE,
                  dropped |-> NoConn]
    /\ IF closed
       THEN UNCHANGED <<pool, closed, conns, closedBy>>
       ELSE /\ closed' = TRUE
            /\ pool' = <<>>
            /\ conns' = [h \in ConnIds |-> IF h \in idle THEN "Shutdown" ELSE conns[h]]
            /\ closedBy' = [h \in ConnIds |-> IF h \in idle THEN "Close" ELSE closedBy[h]]
    /\ UNCHANGED <<held, created>>
    /\ UNCHANGED notPool

\* the transport of connection h changes its connectivity state; only conn.Close()
\* leads to Shutdown, and nothing leads out of it.  A connection that Get let go
\* of is referenced by nobody, so its later states are not followed.
StateChange(h, st) ==
    /\ h \in held \cup idle
    /\ conns[h] \in ConnStates \ {"Shutdown"}
    /\ st \in ConnStates \ {"Shutdown", conns[h]}
    /\ conns' = [conns EXCEPT ![h] = st]
    /\ UNCHANGED <<pool, closed, held, created, closedBy, lastOp>>
    /\ UNCHANGED notPool

InitPool ==
    /\ InitClient
    /\ IdleDelay
    /\ IdleLRU
    /\ IdleWorkers
    /\ IdleRest
    /\ \E k \in 0..PoolSize : NewGRPCConnectionPool(k)

NextPool ==
    \/ Get
    \/ \E h \in ConnIds : Put(h)
    \/ PutNil
    \/ Close
    \/ \E h \in ConnIds, st \in ConnStates : StateChange(h, st)

SpecPool == InitPool /\ [][NextPool]_vars

(***************************************************************************)
(* LRUCache: container/list as the calls of Get and Put use it, and the    *)
(* two methods.                                                            *)
(***************************************************************************)
\* list.PushFront, list.MoveToFront, list.Back, list.Remove
PushFront(l, e) == <<e>> \o l

\* MoveToFront that leaves the element where it is
MoveToFrontNoop(l, e) == l

MoveToFront(l, e) == <<e>> \o SelectSeq(l, LAMBDA x : x # e)

\* Back that yields the element next to the front
BackNextToFront(l) == l[IF Len(l) >= 2 THEN 2 ELSE 1]

Back(l) == l[Len(l)]

Remove(l, e) == SelectSeq(l, LAMBDA x : x # e)

\* the test of Put that runs one push too late
tooLongLate(l) == Len(l) > capacity + 1

\* lru.list.Len() > lru.capacity
tooLong(l) == Len(l) > capacity

\* the overwrite of Put that keeps the old value
withValueKept(en, v) == en

\* elem.Value.(*entry).value = value
withValue(en, v) == [en EXCEPT !.value = v]

\* delete that leaves the key in the map
deleteKeyNoop(m, k) == m

\* delete(lru.cache, key)
deleteKey(m, k) == [m EXCEPT ![k] = NoElem]

\* the element a PushFront allocates
NewElem == CHOOSE e \in ElemIds : \A i \in 1..Len(list) : list[i] # e

\* the key becomes the latest touched
Touch(k) == <<k>> \o SelectSeq(touched, LAMBDA x : x # k)

\* Get that, on a miss, moves the oldest element to the front
LruGetShufflesOnMiss(k) ==
    /\ IF cache[k] # NoElem
       THEN /\ list' = MoveToFront(list, cache[k])
            /\ lruOp' = [op |-> "Get", key |-> k, value |-> entries[cache[k]].value,
                         found |-> TRUE, evicted |-> NoKey, flip |-> 1 - lruOp.flip, prev |-> ThisCall]
            /\ touched' = Touch(k)
       ELSE /\ lruOp' = [op |-> "Get", key |-> k, value |-> NoValue,
                         found |-> FALSE, evicted |-> NoKey, flip |-> 1 - lruOp.flip, prev |-> ThisCall]
            /\ list' = IF list = <<>> THEN list ELSE MoveToFront(list, Back(list))
            /\ UNCHANGED touched
    /\ UNCHANGED <<capacity, cache, entries>>
    /\ UNCHANGED notLRU

\* func (lru *LRUCache) Get(key string) (interface{}, bool)
LruGet(k) ==
    /\ IF cache[k] # NoElem
       THEN /\ list' = MoveToFront(list, cache[k])
            /\ lruOp' = [op |-> "Get", key |-> k, value |-> entries[cache[k]].value,
                         found |-> TRUE, evicted |-> NoKey, flip |-> 1 - lruOp.flip, prev |-> ThisCall]
            /\ touched' = Touch(k)
       ELSE /\ lruOp' = [op |-> "Get", key |-> k, value |-> NoValue,
                         found |-> FALSE, evicted |-> NoKey, flip |-> 1 - lruOp.flip, prev |-> ThisCall]
            /\ UNCHANGED <<list, touched>>
    /\ UNCHANGED <<capacity, cache, entries>>
    /\ UNCHANGED notLRU

\* func (lru *LRUCache) Put(key string, value interface{})
LruPut(k, v) ==
    /\ touched' = Touch(k)
    /\ IF cache[k] # NoElem
       THEN /\ entries' = [entries EXCEPT ![cache[k]] = withValue(@, v)]
            /\ list' = MoveToFront(list, cache[k])
            /\ lruOp' = [op |-> "Put", key |-> k, value |-> v, found |-> TRUE,
                         evicted |-> NoKey, flip |-> 1 - lruOp.flip, prev |-> ThisCall]
            /\ UNCHANGED cache
       ELSE LET elem == NewElem
                pushed == PushFront(list, elem)
                stored == [entries EXCEPT ![elem] = [key |-> k, value |-> v]]
                mapped == [cache EXCEPT ![k] = elem]
            IN  IF tooLong(pushed)
                THEN LET oldest == Back(pushed)
                     IN  /\ list' = Remove(pushed, oldest)
                         /\ cache' = deleteKey(mapped, stored[oldest].key)
                         /\ entries' = [stored EXCEPT ![oldest] = NoEntry]
                         /\ lruOp' = [op |-> "Put", key |-> k, value |-> v,
                                      found |-> FALSE, evicted |-> stored[oldest].key,
                                      flip |-> 1 - lruOp.flip, prev |-> ThisCall]
                ELSE /\ list' = pushed
                     /\ cache' = mapped
                     /\ entries' = stored
                     /\ lruOp' = [op |-> "Put", key |-> k, value |-> v,
                                  found |-> FALSE, evicted |-> NoKey,
                                  flip |-> 1 - lruOp.flip, prev |-> ThisCall]
    /\ UNCHANGED capacity
    /\ UNCHANGED notLRU

InitLRU ==
    /\ InitClient
    /\ IdleDelay
    /\ IdlePool
    /\ IdleWorkers
    /\ IdleRest
    /\ \E c \in 0..MaxCapacity : NewLRUCache(c)

NextLRU ==
    \/ \E k \in LruKeys : LruGet(k)
    \/ \E k \in LruKeys, v \in LruValues : LruPut(k, v)

SpecLRU == InitLRU /\ [][NextLRU]_vars

(***************************************************************************)
(* WorkerPool: Submit, the worker loop and Stop.                           *)
(***************************************************************************)
\* a goroutine calls p.Submit(work) with the next work function
SubmitCall(t) ==
    /\ submitted[t] = "new"
    /\ \A u \in Submits : u < t => submitted[u] # "new"
    /\ submitted' = [submitted EXCEPT ![t] = "sending"]
    /\ afterStop' = IF quit THEN afterStop \cup {t} ELSE afterStop
    /\ UNCHANGED <<workerChan, quit, wpc, work, queuedAtStop, semaphore, tpc>>
    /\ UNCHANGED notWorkers

\* p.workerChan <- work: the send completes when the buffer has room
SubmitSend(t) ==
    /\ submitted[t] = "sending"
    /\ Len(workerChan) < MaxWorkers
    /\ workerChan' = Append(workerChan, t)
    /\ submitted' = [submitted EXCEPT ![t] = "queued"]
    /\ UNCHANGED <<quit, wpc, work, afterStop, queuedAtStop, semaphore, tpc>>
    /\ UNCHANGED notWorkers

\* worker: case work := <-p.workerChan, then work() starts
WorkerTake(w) ==
    /\ wpc[w] = "select"
    /\ workerChan # <<>>
    /\ workerChan' = Tail(workerChan)
    /\ wpc' = [wpc EXCEPT ![w] = "working"]
    /\ work' = [work EXCEPT ![w] = Head(workerChan)]
    /\ submitted' = [submitted EXCEPT ![Head(workerChan)] = "running"]
    /\ UNCHANGED <<quit, afterStop, queuedAtStop, semaphore, tpc>>
    /\ UNCHANGED notWorkers

\* worker: work() returns, back to the select
WorkReturns(w) ==
    /\ wpc[w] = "working"
    /\ wpc' = [wpc EXCEPT ![w] = "select"]
    /\ work' = [work EXCEPT ![w] = NoTask]
    /\ submitted' = [submitted EXCEPT ![work[w]] = "done"]
    /\ UNCHANGED <<workerChan, quit, afterStop, queuedAtStop, semaphore, tpc>>
    /\ UNCHANGED notWorkers

\* worker: case <-p.quit: return
WorkerQuit(w) ==
    /\ wpc[w] = "select"
    /\ quit
    /\ wpc' = [wpc EXCEPT ![w] = "exited"]
    /\ UNCHANGED <<workerChan, quit, work, submitted, afterStop, queuedAtStop,
                   semaphore, tpc>>
    /\ UNCHANGED notWorkers

\* func (p *WorkerPool) Stop(): close(p.quit)
Stop ==
    /\ ~quit
    /\ quit' = TRUE
    /\ queuedAtStop' = {workerChan[i] : i \in 1..Len(workerChan)}
    /\ UNCHANGED <<workerChan, wpc, work, submitted, afterStop, semaphore, tpc>>
    /\ UNCHANGED notWorkers

(***************************************************************************)
(* controlledConcurrency: the loop that starts a goroutine per task, and   *)
(* the goroutines.                                                         *)
(***************************************************************************)
\* wg.Add(1); go func(t Task) {...}(task), for the next task of the range
Spawn(t) ==
    /\ tpc[t] = "unstarted"
    /\ \A u \in Tasks : u < t => tpc[u] # "unstarted"
    /\ tpc' = [tpc EXCEPT ![t] = "started"]
    /\ UNCHANGED <<workerChan, quit, wpc, work, submitted, afterStop, queuedAtStop,
                   semaphore>>
    /\ UNCHANGED notWorkers

\* the send on the semaphore that does not wait for room
AcquireNoWait(t) ==
    /\ tpc[t] = "started"
    /\ semaphore' = semaphore + 1
    /\ tpc' = [tpc EXCEPT ![t] = "running"]
    /\ UNCHANGED <<workerChan, quit, wpc, work, submitted, afterStop, queuedAtStop>>
    /\ UNCHANGED notWorkers

\* semaphore <- struct{}{}: completes when the channel has room; processTask starts
Acquire(t) ==
    /\ tpc[t] = "started"
    /\ semaphore < MaxWorkers
    /\ semaphore' = semaphore + 1
    /\ tpc' = [tpc EXCEPT ![t] = "running"]
    /\ UNCHANGED <<workerChan, quit, wpc, work, submitted, afterStop, queuedAtStop>>
    /\ UNCHANGED notWorkers

\* processTask(t) returns; deferred: <-semaphore, wg.Done()
Release(t) ==
    /\ tpc[t] = "running"
    /\ semaphore' = semaphore - 1
    /\ tpc' = [tpc EXCEPT ![t] = "done"]
    /\ UNCHANGED <<workerChan, quit, wpc, work, submitted, afterStop, queuedAtStop>>
    /\ UNCHANGED notWorkers

InitWorkers ==
    /\ InitClient
    /\ IdleDelay
    /\ IdlePool
    /\ IdleLRU
    /\ NewWorkerPool
    /\ StartControlled
    /\ IdleRest

NextWorkers ==
    \/ \E t \in Submits : SubmitCall(t)
    \/ \E t \in Submits : SubmitSend(t)
    \/ \E w \in Workers : WorkerTake(w)
    \/ \E w \in Workers : WorkReturns(w)
    \/ \E w \in Workers : WorkerQuit(w)
    \/ Stop
    \/ \E t \in Tasks : Spawn(t)
    \/ \E t \in Tasks : Acquire(t)
    \/ \E t \in Tasks : Release(t)

SpecWorkers == InitWorkers /\ [][NextWorkers]_vars

\* the Go scheduler runs every goroutine that can take a step: a send that has
\* room completes, a worker at its select with a case ready goes on, a running
\* work function returns
FairWorkers ==
    /\ \A t \in Submits : WF_vars(SubmitSend(t))
    /\ \A w \in Workers : WF_vars(WorkerTake(w) \/ WorkerQuit(w))
    /\ \A w \in Workers : WF_vars(WorkReturns(w))

SpecWorkersFair == SpecWorkers /\ FairWorkers

\* parts 1 to 4 while a later component is looked at on its own
IdleFirst == InitClient /\ IdleDelay /\ IdlePool /\ IdleLRU /\ IdleWorkers

(***************************************************************************)
(* Cache: Set, Get and cleanup.                                            *)
(***************************************************************************)
\* time.Now().After(item.expiration)
After(t, expiration) == t > expiration

\* func (c *Cache) Set(key string, value interface{}, ttl time.Duration)
CacheSet(k, v, ttl) ==
    /\ data' = [data EXCEPT ![k] = [value |-> v, expiration |-> cnow + ttl]]
    /\ lastSet' = [lastSet EXCEPT ![k] = [value |-> v, expiration |-> cnow + ttl]]
    /\ cacheOp' = [op |-> "Set", key |-> k, value |-> v, found |-> FALSE,
                   flip |-> 1 - cacheOp.flip]
    /\ UNCHANGED cnow
    /\ UNCHANGED notTTL

\* Get that returns whatever the map holds
CacheGetIgnoresExpiry(k) ==
    /\ cacheOp' = IF data[k] = NoItem
                  THEN [op |-> "Get", key |-> k, value |-> NoValue, found |-> FALSE,
                        flip |-> 1 - cacheOp.flip]
                  ELSE [op |-> "Get", key |-> k, value |-> data[k].value,
                        found |-> TRUE, flip |-> 1 - cacheOp.flip]
    /\ UNCHANGED <<data, cnow, lastSet>>
    /\ UNCHANGED notTTL

\* func (c *Cache) Get(key string) (interface{}, bool)
CacheGet(k) ==
    /\ cacheOp' = IF data[k] = NoItem \/ After(cnow, data[k].expiration)
                  THEN [op |-> "Get", key |-> k, value |-> NoValue, found |-> FALSE,
                        flip |-> 1 - cacheOp.flip]
                  ELSE [op |-> "Get", key |-> k, value |-> data[k].value,
                        found |-> TRUE, flip |-> 1 - cacheOp.flip]
    /\ UNCHANGED <<data, cnow, lastSet>>
    /\ UNCHANGED notTTL

\* one round of the loop of cleanup: every item that has expired is deleted
cleanup ==
    /\ data' = [k \in CacheKeys |->
                  IF data[k] # NoItem /\ After(cnow, data[k].expiration)
                  THEN NoItem ELSE data[k]]
    /\ cacheOp' = [op |-> "cleanup", key |-> NoKey, value |-> NoValue,
                   found |-> FALSE, flip |-> 1 - cacheOp.flip]
    /\ UNCHANGED <<cnow, lastSet>>
    /\ UNCHANGED notTTL

\* time passes
CacheTick ==
    /\ cnow < MaxCacheTime
    /\ cnow' = cnow + 1
    /\ UNCHANGED <<data, lastSet, cacheOp>>
    /\ UNCHANGED notTTL

InitTTL == IdleFirst /\ NewCache /\ StartRateLimiting /\ StartFanOutFanIn

NextTTL ==
    \/ \E k \in CacheKeys, v \in CacheValues, ttl \in TTLs : CacheSet(k, v, ttl)
    \/ \E k \in CacheKeys : CacheGet(k)
    \/ cleanup
    \/ CacheTick

SpecTTL == InitTTL /\ [][NextTTL]_vars

(***************************************************************************)
(* fanOutFanIn and its workers.                                            *)
(***************************************************************************)
\* a worker that reads the first job without taking it out of the channel
RangeJobsPeek(w) ==
    /\ fanpc[w] = "range"
    /\ IF jobs # <<>>
       THEN /\ fanJob' = [fanJob EXCEPT ![w] = Head(jobs)]
            /\ jobs' = IF takes[Head(jobs)] = 0 THEN jobs ELSE Tail(jobs)
            /\ takes' = [takes EXCEPT ![Head(jobs)] = @ + 1]
            /\ fanpc' = [fanpc EXCEPT ![w] = "work"]
       ELSE /\ jobsClosed
            /\ fanpc' = [fanpc EXCEPT ![w] = "exited"]
            /\ UNCHANGED <<fanJob, jobs, takes>>
    /\ UNCHANGED <<jobsClosed, results, mainpc, nextJob, received, produced>>
    /\ UNCHANGED notFan

\* worker: for j := range jobs.  The next job, or the end of the loop when jobs
\* is closed and empty; the worker waits while jobs is empty and open
RangeJobs(w) ==
    /\ fanpc[w] = "range"
    /\ IF jobs # <<>>
       THEN /\ fanJob' = [fanJob EXCEPT ![w] = Head(jobs)]
            /\ jobs' = Tail(jobs)
            /\ takes' = [takes EXCEPT ![Head(jobs)] = @ + 1]
            /\ fanpc' = [fanpc EXCEPT ![w] = "work"]
       ELSE /\ jobsClosed
            /\ fanpc' = [fanpc EXCEPT ![w] = "exited"]
            /\ UNCHANGED <<fanJob, jobs, takes>>
    /\ UNCHANGED <<jobsClosed, results, mainpc, nextJob, received, produced>>
    /\ UNCHANGED notFan

\* worker: the job is done and results <- resultStr completes; the send waits
\* while results is full
SendResult(w) ==
    /\ fanpc[w] = "work"
    /\ Len(results) < numJobs
    /\ results' = Append(results, [worker |-> w, job |-> fanJob[w]])
    /\ produced' = [produced EXCEPT ![fanJob[w]] = @ + 1]
    /\ fanJob' = [fanJob EXCEPT ![w] = NoJob]
    /\ fanpc' = [fanpc EXCEPT ![w] = "range"]
    /\ UNCHANGED <<jobs, jobsClosed, mainpc, nextJob, received, takes>>
    /\ UNCHANGED notFan

\* fanOutFanIn: jobs <- j completes; the send waits while jobs is full
SendJob ==
    /\ mainpc = "send"
    /\ nextJob <= numJobs
    /\ Len(jobs) < numJobs
    /\ jobs' = Append(jobs, nextJob)
    /\ nextJob' = nextJob + 1
    /\ UNCHANGED <<jobsClosed, results, fanpc, fanJob, mainpc, received, takes,
                   produced>>
    /\ UNCHANGED notFan

\* fanOutFanIn: close(jobs) after the last job was sent
CloseJobs ==
    /\ mainpc = "send"
    /\ nextJob > numJobs
    /\ jobsClosed' = TRUE
    /\ mainpc' = "collect"
    /\ UNCHANGED <<jobs, results, fanpc, fanJob, nextJob, received, takes, produced>>
    /\ UNCHANGED notFan

\* fanOutFanIn: <-results, numJobs times, then the function returns
Collect ==
    /\ mainpc = "collect"
    /\ Len(received) < numJobs
    /\ results # <<>>
    /\ received' = Append(received, Head(results))
    /\ results' = Tail(results)
    /\ mainpc' = IF Len(received') = numJobs THEN "done" ELSE "collect"
    /\ UNCHANGED <<jobs, jobsClosed, fanpc, fanJob, nextJob, takes, produced>>
    /\ UNCHANGED notFan

InitFan == IdleFirst /\ NewCache /\ StartRateLimiting /\ StartFanOutFanIn

NextFan ==
    \/ \E w \in FanWorkers : RangeJobs(w)
    \/ \E w \in FanWorkers : SendResult(w)
    \/ SendJob
    \/ CloseJobs
    \/ Collect

SpecFan == InitFan /\ [][NextFan]_vars

\* the scheduler runs every goroutine that can go on: a worker at its range with a
\* job to take or a closed channel, a send or a receive that can complete
FairFan ==
    /\ \A w \in FanWorkers : WF_vars(RangeJobs(w))
    /\ \A w \in FanWorkers : WF_vars(SendResult(w))
    /\ WF_vars(SendJob)
    /\ WF_vars(CloseJobs)
    /\ WF_vars(Collect)

SpecFanFair == SpecFan /\ FairFan

(***************************************************************************)
(* rateLimiting: the loop and the ticker.                                  *)
(***************************************************************************)
\* for req := range requests: the next request, or the end of the loop when the
\* closed channel is empty
RangeRequests ==
    /\ rpc = "range"
    /\ IF requests # <<>>
       THEN /\ req' = Head(requests)
            /\ requests' = Tail(requests)
            /\ rpc' = "tick"
       ELSE /\ rpc' = "done"
            /\ UNCHANGED <<req, requests>>
    /\ UNCHANGED <<tickerC, rnow, ticksFired, processed, lastStart, prevStart>>
    /\ UNCHANGED notRate

\* <-ticker.C, then the request is processed
ReceiveTick ==
    /\ rpc = "tick"
    /\ tickerC = 1
    /\ tickerC' = 0
    /\ processed' = Append(processed, req)
    /\ prevStart' = lastStart
    /\ lastStart' = rnow
    /\ req' = NoReq
    /\ rpc' = "range"
    /\ UNCHANGED <<requests, rnow, ticksFired>>
    /\ UNCHANGED notRate

\* time passes; at every multiple of Interval the ticker fires, and the tick is
\* dropped when the last one has not been received
RateClock ==
    /\ rpc # "done"
    /\ rnow < MaxRateSteps * TimeStep
    /\ rnow' = rnow + TimeStep
    /\ IF rnow' % Interval = 0
       THEN /\ ticksFired' = ticksFired + 1
            /\ tickerC' = 1
       ELSE UNCHANGED <<ticksFired, tickerC>>
    /\ UNCHANGED <<requests, rpc, req, processed, lastStart, prevStart>>
    /\ UNCHANGED notRate

InitRate == IdleFirst /\ NewCache /\ StartRateLimiting /\ StartFanOutFanIn

NextRate ==
    \/ RangeRequests
    \/ ReceiveTick
    \/ RateClock

SpecRate == InitRate /\ [][NextRate]_vars

(***************************************************************************)
(* The client on its own.                                                  *)
(***************************************************************************)
Init == IdleFirst /\ IdleRest

Next ==
    \/ \E p \in Callers : DoWithRetry(p)
    \/ \E p \in Callers : Cancel(p)
    \/ Tick

Spec == Init /\ [][Next]_vars

(***************************************************************************)
(* calculateDelay on its own: every attempt number up to MaxAttemptN with  *)
(* every jitter draw.                                                      *)
(***************************************************************************)
InitDelay ==
    /\ InitClient
    /\ IdlePool
    /\ IdleLRU
    /\ IdleWorkers
    /\ IdleRest
    /\ dAttempt = 1
    /\ dRand \in 0..(JitterDen - 1)
    /\ dDelay = NoDelay
    /\ dFree = NoDelay
    /\ dPrev = NoDelay

\* delay := c.calculateDelay(attempt), and the same attempt with a draw of 0
CalcDelay ==
    /\ dDelay = NoDelay
    /\ dDelay' = calculateDelay(dAttempt, dRand)
    /\ dFree' = calculateDelay(dAttempt, 0)
    /\ UNCHANGED <<dAttempt, dRand, dPrev>>
    /\ UNCHANGED notDelay

\* attempt++ with a fresh draw
NextAttempt ==
    /\ dDelay # NoDelay
    /\ dAttempt < MaxAttemptN
    /\ dAttempt' = dAttempt + 1
    /\ dRand' \in 0..(JitterDen - 1)
    /\ dPrev' = dFree
    /\ dDelay' = NoDelay
    /\ dFree' = NoDelay
    /\ UNCHANGED notDelay

NextDelay ==
    \/ CalcDelay
    \/ NextAttempt

SpecDelay == InitDelay /\ [][NextDelay]_vars

(***************************************************************************)
(* Properties.                                                             *)
(***************************************************************************)
Min(a, b) == IF a < b THEN a ELSE b

\* caller p took the step that runs recordSuccess / recordFailure / the breaker check
DidRecordSuccess(p) == pc[p] = "recordSuccess" /\ pc'[p] = "done"
DidRecordFailure(p) == pc[p] = "recordFailure" /\ pc'[p] = "done"
DidCheck(p) == pc[p] = "idle" /\ pc'[p] # "idle"

\* calls admitted while the breaker was HalfOpen that have not reported an outcome
OutstandingTrials == {p \in Callers : hist[p].trial /\ pc[p] \notin {"idle", "done"}}

\* C1: while the breaker is HalfOpen at most one admitted call is outstanding; no
\* interleaving has two trial calls outstanding at the same time.
SingleTrial == Cardinality(OutstandingTrials) <= 1

\* C2: counting recordFailure calls since the last recordSuccess (or since the
\* client was built), the breaker is Closed after fewer than MaxFailures of them,
\* goes from Closed to Open at the MaxFailures-th, and a recordSuccess while
\* Closed sets failures to 0.
OpensAtThreshold ==
    [][\A p \in Callers :
          /\ DidRecordFailure(p) =>
                /\ streak' < MaxFailures => state' = Closed /\ failures' = streak'
                /\ streak' = MaxFailures => state = Closed /\ state' = Open
                /\ streak' >= MaxFailures => state' = Open
          /\ DidRecordSuccess(p) /\ state = Closed =>
                failures' = 0 /\ state' = Closed]_vars

OpenedAtThreshold == state = Open /\ streak = MaxFailures /\ failures = MaxFailures

\* C3: a step from Open to HalfOpen is a breaker check of some caller, taken when at
\* least ResetTimeout has passed since the step that opened the breaker.
HalfOpenOnlyAfterTimeout ==
    [][(state = Open /\ state' = HalfOpen) =>
          /\ now - openedAt >= ResetTimeout
          /\ \E p \in Callers : DidCheck(p)]_vars

HalfOpenReached == state = HalfOpen /\ now - openedAt > ResetTimeout

\* C4: a call that runs its breaker check while the breaker is Open and ResetTimeout
\* has not elapsed returns the breaker-open error in that very step, having made no
\* request attempt and no backoff wait.
OpenRejectsAtOnce ==
    [][\A p \in Callers :
          (/\ DidCheck(p)
           /\ state = Open
           /\ \/ now - openedAt < ResetTimeout
              \/ now - lastFailTime <= ResetTimeout) =>
             /\ pc'[p] = "done"
             /\ ret'[p] = "breaker_open"
             /\ hist'[p].nreq = 0
             /\ hist'[p].nwait = 0]_vars

RejectedWhileOpen ==
    \E p \in Callers :
       /\ pc[p] = "done"
       /\ ret[p] = "breaker_open"
       /\ state = Open
       /\ now - lastFailTime = ResetTimeout

\* C5: the step in which a call is rejected by the open breaker leaves failures,
\* lastFailTime and state as they were.
RejectionLeavesBreaker ==
    [][\A p \in Callers :
          (DidCheck(p) /\ ret'[p] = "breaker_open") =>
             UNCHANGED <<failures, lastFailTime, state>>]_vars

RejectedNotCounted ==
    \E p \in Callers :
       /\ ret[p] = "breaker_open"
       /\ state = Open
       /\ failures = MaxFailures
       /\ lastFailTime = openedAt

\* C6: a call that returned success has called recordSuccess once and recordFailure
\* never; a call that returned the request-failed error (non-retryable failure or
\* retries exhausted) has called recordFailure once and recordSuccess never; no call
\* records twice; the step that handles a response never touches the breaker, and
\* failures grows by at most 1 per step, only in a recordFailure step.
OneRecordPerCall ==
    /\ [](\A p \in Callers :
            /\ hist[p].nsucc + hist[p].nfail <= 1
            /\ (pc[p] = "done" /\ ret[p] = "ok") =>
                  hist[p].nsucc = 1 /\ hist[p].nfail = 0
            /\ (pc[p] = "done" /\ ret[p] = "failed") =>
                  hist[p].nsucc = 0 /\ hist[p].nfail = 1)
    /\ [][/\ \A p \in Callers :
               (pc[p] = "inflight" /\ pc'[p] # "inflight") =>
                  UNCHANGED <<failures, lastFailTime, state>>
          /\ failures' > failures =>
               /\ failures' = failures + 1
               /\ \E p \in Callers : DidRecordFailure(p)]_vars

RetriedThenRecordedOnce ==
    \E p \in Callers :
       /\ pc[p] = "done"
       /\ ret[p] = "failed"
       /\ hist[p].nreq = 2
       /\ ~hist[p].allRetryable
       /\ hist[p].nfail = 1
       /\ failures = 1

\* C7: Closed implies failures < MaxFailures; Open or HalfOpen implies
\* failures >= MaxFailures and lastFailTime set.
BreakerConsistent ==
    /\ state = Closed => failures < MaxFailures
    /\ state \in {Open, HalfOpen} =>
          failures >= MaxFailures /\ lastFailTime # ZeroTime

HalfOpenAfterLateFailure == state = HalfOpen /\ failures > MaxFailures

\* C8: when a call admitted while the breaker was HalfOpen reports success the breaker
\* becomes Closed with failures = 0; when it reports failure the breaker becomes
\* Open and lastFailTime is the time of that failure.
TrialDecides ==
    [][\A p \in Callers :
          hist[p].trial =>
             /\ DidRecordSuccess(p) => state' = Closed /\ failures' = 0
             /\ DidRecordFailure(p) => state' = Open /\ lastFailTime' = now]_vars

\* C9: a call whose context is not cancelled in a backoff wait and whose attempts all
\* fail with a retryable outcome makes MaxRetries+1 attempts and MaxRetries waits, one
\* before each attempt but the first, and returns the request-failed error; the wait
\* before retry k is BaseDelay * Multiplier^(k-1) plus the jitter drawn for it.
ExhaustsRetries ==
    \A p \in Callers :
       /\ pc[p] = "wait" =>
             LET free == BaseDelay * Pow(Multiplier, attempt[p] - 1)
             IN  /\ delay[p] = free + (hist[p].rand * free) \div (10 * JitterDen)
                 /\ hist[p].rand = 0 /\ attempt[p] = 1 => delay[p] = 100
                 /\ hist[p].rand = 0 /\ attempt[p] = 2 => delay[p] = 200
                 /\ hist[p].nwait = attempt[p]
                 /\ hist[p].nreq = attempt[p]
       /\ pc[p] = "inflight" => hist[p].nwait = hist[p].nreq - 1
       /\ (/\ pc[p] = "done"
           /\ hist[p].nreq > 0
           /\ hist[p].allRetryable
           /\ ret[p] # "ctx_err") =>
             /\ ret[p] = "failed"
             /\ hist[p].nreq = MaxRetries + 1
             /\ hist[p].nwait = MaxRetries

RetriesExhausted ==
    \E p \in Callers :
       /\ pc[p] = "done"
       /\ ret[p] = "failed"
       /\ hist[p].allRetryable
       /\ hist[p].nreq = MaxRetries + 1
       /\ hist[p].nwait = MaxRetries

\* C10: for every attempt number and jitter draw calculateDelay is non-negative and
\* at most MaxDelay; with a draw of 0 it is min(MaxDelay, BaseDelay * Multiplier^(n-1)),
\* which does not decrease from one attempt number to the next.
DelayBounded ==
    dDelay # NoDelay =>
       /\ 0 <= dDelay
       /\ dDelay <= MaxDelay
       /\ dFree = Min(MaxDelay, BaseDelay * Pow(Multiplier, dAttempt - 1))
       /\ dFree <= dDelay
       /\ dPrev # NoDelay => dPrev <= dFree

DelayClamped ==
    /\ dDelay = MaxDelay
    /\ dRand > 0
    /\ dFree = MaxDelay
    /\ dPrev # NoDelay
    /\ dPrev < MaxDelay

\* the response of the attempt just answered is neither a success nor retryable
NonRetryable(resp) ==
    /\ ~resp.err
    /\ ~isSuccessStatusCode(resp.code)
    /\ resp.code \notin {429, 500, 502, 503, 504}

\* C11: the step in which an attempt is answered by a response that is neither 2xx
\* nor one of 429, 500, 502, 503, 504 takes the call straight to recordFailure,
\* with no backoff wait; from there the call makes no request and no wait, records
\* one failure on the breaker and returns the request-failed error.
NonRetryableStops ==
    [][\A p \in Callers :
          /\ (/\ pc[p] = "inflight"
              /\ pc'[p] # "inflight"
              /\ NonRetryable(hist'[p].lastResp)) =>
                 /\ pc'[p] = "recordFailure"
                 /\ hist'[p].nwait = hist[p].nwait
                 /\ hist'[p].nreq = hist[p].nreq
          /\ (/\ pc[p] = "recordFailure"
              /\ pc'[p] # "recordFailure"
              /\ NonRetryable(hist[p].lastResp)) =>
                 /\ pc'[p] = "done"
                 /\ ret'[p] = "failed"
                 /\ hist'[p].nfail = 1
                 /\ hist'[p].nsucc = 0
                 /\ failures' = failures + 1
                 /\ hist'[p].nwait = hist[p].nwait
                 /\ hist'[p].nreq = hist[p].nreq]_vars

StoppedOnNonRetryable ==
    \E p \in Callers :
       /\ pc[p] = "done"
       /\ ret[p] = "failed"
       /\ NonRetryable(hist[p].lastResp)
       /\ hist[p].nreq = 1
       /\ hist[p].nwait = 0
       /\ hist[p].nfail = 1

\* the error an attempt answered by resp leaves in lastErr
ErrOf(resp) ==
    IF resp.err THEN [kind |-> "net", code |-> 0]
    ELSE [kind |-> "http", code |-> resp.code]

\* C12: the error of a failed call states the number of attempts the call performed
\* and wraps the error of its last attempt, whether the retries were exhausted or
\* the loop stopped on a non-retryable failure.
ErrorReportsAttempts ==
    \A p \in Callers :
       (pc[p] = "done" /\ ret[p] = "failed") =>
          /\ retErr[p].attempts = hist[p].nreq
          /\ retErr[p].wrapped = ErrOf(hist[p].lastResp)

\* C13: once the context is cancelled while the call is blocked in a backoff wait,
\* the call leaves the wait only by returning the context's error, with no further
\* request, no further wait and no record on the breaker.
CancelInBackoffReturns ==
    [][\A p \in Callers :
          (/\ pc[p] = "wait"
           /\ hist[p].cancelledInWait
           /\ pc'[p] # "wait") =>
              /\ pc'[p] = "done"
              /\ ret'[p] = "ctx_err"
              /\ hist'[p].nreq = hist[p].nreq
              /\ hist'[p].nwait = hist[p].nwait
              /\ hist'[p].nfail = 0
              /\ hist'[p].nsucc = 0
              /\ cb' = cb]_vars

CancelledInBackoff ==
    \E p \in Callers :
       /\ pc[p] = "done"
       /\ ret[p] = "ctx_err"
       /\ hist[p].cancelledInWait
       /\ hist[p].nreq = 1
       /\ hist[p].nwait = 1

\* the step is a Put of connection h / a Get that hands out connection h
DidPut(h) == h \in held /\ h \notin held'
DidGet(h) == h \notin held /\ h \in held'

\* C14: in every interleaving of Get and Put the connections checked out plus the
\* connections idle in the pool number at most PoolSize.
LiveWithinPoolSize == Cardinality(held \cup idle) <= PoolSize

\* C15: while PoolSize connections are checked out and none is idle, no Get hands
\* out a connection; the Get that follows a Put in that situation hands out a
\* connection that sits in the pool, the one the Put gave back.
GetWaitsForPut ==
    [][\A h \in ConnIds :
          DidGet(h) =>
             /\ ~(Cardinality(held) = PoolSize /\ pool = <<>>)
             /\ (Cardinality(held) = PoolSize - 1 /\ lastOp.op = "Put" /\ pool # <<>>) =>
                   h \in idle]_vars

\* C16: once the pool is closed it stays closed, and a Get on it returns the
\* pool-closed error and no connection, hands nothing out and does not call the
\* factory.
GetAfterCloseFails ==
    [][closed =>
          /\ closed'
          /\ created' = created
          /\ \A h \in ConnIds : ~DidGet(h)
          /\ lastOp'.op = "Get" =>
                /\ lastOp'.err = "closed"
                /\ lastOp'.conn = NoConn
                /\ ~lastOp'.dialed]_vars

GotClosedError ==
    /\ closed
    /\ lastOp.op = "Get"
    /\ lastOp.err = "closed"
    /\ held # {}

\* C17: the Close that closes the pool closes every connection idle at that moment
\* and empties the pool; the pool is empty ever after; a Put on the closed pool
\* closes its connection and does not store it.
CloseReleasesIdle ==
    [][/\ (~closed /\ closed') =>
             /\ pool' = <<>>
             /\ \A h \in idle : conns'[h] = "Shutdown"
       /\ closed => pool = <<>> /\ pool' = <<>>
       /\ \A h \in ConnIds :
             (closed /\ DidPut(h)) => conns'[h] = "Shutdown" /\ h \notin idle']_vars

ClosedIdleAndReturned ==
    /\ closed
    /\ \E h \in ConnIds : closedBy[h] = "Close"
    /\ \E h \in ConnIds : closedBy[h] = "PutClosed"

\* C18: a Get that receives from the pool a connection that is Ready or Idle hands
\* out that connection; one that receives a connection in any other state hands it
\* to nobody and returns what the factory yields, a new connection or, if the dial
\* fails, the dial's error and no connection.
GetReplacesUnusable ==
    [][(~closed' /\ Len(pool') < Len(pool)) =>
          LET h == Head(pool)
          IN  /\ pool' = Tail(pool)
              /\ lastOp'.op = "Get"
              /\ IF usable(h)
                 THEN /\ lastOp'.conn = h
                      /\ lastOp'.err = "nil"
                      /\ ~lastOp'.dialed
                      /\ held' = held \cup {h}
                 ELSE /\ h \notin held'
                      /\ lastOp'.dropped = h
                      /\ lastOp'.dialed
                      /\ \/ /\ lastOp'.err = "nil"
                            /\ lastOp'.conn = created'
                            /\ created' = created + 1
                            /\ conns[lastOp'.conn] = "absent"
                            /\ held' = held \cup {lastOp'.conn}
                         \/ /\ lastOp'.err = "dial"
                            /\ lastOp'.conn = NoConn
                            /\ created' = created
                            /\ held' = held]_vars

ReplacedUnusable ==
    /\ lastOp.op = "Get"
    /\ lastOp.dropped # NoConn
    /\ lastOp.err = "nil"
    /\ lastOp.conn \in held
    /\ lastOp.dropped \notin held

\* C19: a Put of a connection that is neither Ready nor Idle at that moment does
\* not store the connection in the pool.
PutStoresOnlyUsable ==
    [][\A h \in ConnIds :
          (DidPut(h) /\ ~usable(h)) => h \notin idle']_vars

\* C20: the pool never holds more than PoolSize idle connections; a Put on an open
\* pool that is full closes its connection and leaves the pool as it is.
IdleWithinPoolSize ==
    [][/\ Len(pool') <= PoolSize
       /\ \A h \in ConnIds :
             (DidPut(h) /\ ~closed /\ Len(pool) = PoolSize) =>
                /\ conns'[h] = "Shutdown"
                /\ pool' = pool]_vars

PutOnFullPool ==
    /\ ~closed
    /\ Len(pool) = PoolSize
    /\ \E h \in ConnIds : closedBy[h] = "PutFull"

\* the keys the index map holds, the keys the list carries front to back, and a step
\* that is a call on the cache
StoredKeys == {k \in LruKeys : cache[k] # NoElem}
ListKeys == [i \in 1..Len(list) |-> entries[list[i]].key]
LruCall == lruOp'.flip # lruOp.flip

\* C21: after any sequence of Get and Put the list and the index map of the
\* LRUCache hold at most capacity entries.
SizeWithinCapacity ==
    /\ Len(list) <= capacity
    /\ Cardinality(StoredKeys) <= capacity

FullAfterEviction ==
    /\ capacity = MaxCapacity
    /\ Len(list) = capacity
    /\ lruOp.op = "Put"
    /\ lruOp.evicted # NoKey

\* the stored keys in the order of their last touch, latest first
StoredByTouch == SelectSeq(touched, LAMBDA k : k \in StoredKeys)

\* C22: when a Put of a new key into a cache of capacity >= 1 evicts, the evicted
\* key is the stored key whose last touch is the oldest, it is the only key that
\* goes, and the new key is stored; capacity 2 with a touched after b: Put c
\* leaves {a, c}.
EvictsLeastRecent ==
    [][(/\ LruCall
        /\ lruOp'.op = "Put"
        /\ lruOp'.evicted # NoKey
        /\ capacity >= 1) =>
           /\ cache[lruOp'.key] = NoElem
           /\ Len(list) = capacity
           /\ lruOp'.evicted = StoredByTouch[Len(StoredByTouch)]
           /\ StoredKeys' = (StoredKeys \ {lruOp'.evicted}) \cup {lruOp'.key}
           /\ Cardinality(StoredKeys') = capacity
           /\ (/\ capacity = 2
               /\ StoredByTouch = <<"a", "b">>
               /\ lruOp'.key = "c") => StoredKeys' = {"a", "c"}]_vars

EvictedBAfterGetA ==
    /\ capacity = 2
    /\ lruOp.op = "Put"
    /\ lruOp.key = "c"
    /\ lruOp.evicted = "b"
    /\ lruOp.prev = [op |-> "Get", key |-> "a", value |-> 1]
    /\ StoredKeys = {"a", "c"}

\* C23 as stated: in every cache, a Get of k that follows a Put(k, v) directly
\* returns (v, true).
PutThenGet ==
    (/\ lruOp.op = "Get"
     /\ lruOp.prev.op = "Put"
     /\ lruOp.prev.key = lruOp.key) =>
        /\ lruOp.found
        /\ lruOp.value = lruOp.prev.value

\* C23: in a cache of capacity >= 1, a Get of k that follows a Put(k, v) directly
\* returns (v, true), whether k was new or stored and whether or not the Put
\* evicted another key.
PutThenGetWithRoom == capacity >= 1 => PutThenGet

GotWhatWasPut ==
    /\ capacity = 1
    /\ lruOp.op = "Get"
    /\ lruOp.found
    /\ lruOp.prev = [op |-> "Put", key |-> lruOp.key, value |-> 2]
    /\ lruOp.value = 2
    /\ Len(touched) >= 2

\* C24: the list carries the stored keys in the order of their last touch (a Get
\* that hits, an insert, an overwrite), latest first; a Put of a stored key sets
\* its value and moves it to the front, and keeps the size, the stored keys and
\* the other values also when the cache is full.
ListInTouchOrder ==
    [][/\ ListKeys' = StoredByTouch'
       /\ (LruCall /\ lruOp'.op = "Put" /\ cache[lruOp'.key] # NoElem) =>
             /\ lruOp'.evicted = NoKey
             /\ Len(list') = Len(list)
             /\ StoredKeys' = StoredKeys
             /\ cache' = cache
             /\ list'[1] = cache[lruOp'.key]
             /\ \A e \in ElemIds :
                   entries'[e] = IF e = cache[lruOp'.key]
                                 THEN [key |-> lruOp'.key, value |-> lruOp'.value]
                                 ELSE entries[e]]_vars

OverwroteInFullCache ==
    /\ capacity = 2
    /\ Len(list) = 2
    /\ lruOp.op = "Put"
    /\ lruOp.found
    /\ lruOp.prev.op = "Put"
    /\ lruOp.prev.key # lruOp.key
    /\ entries[list[1]] = [key |-> lruOp.key, value |-> lruOp.value]

\* C25: a Get of a key that is not stored returns (nil, false) and leaves the index
\* map, the list and the entries as they were.
MissChangesNothing ==
    [][(LruCall /\ lruOp'.op = "Get" /\ cache[lruOp'.key] = NoElem) =>
          /\ ~lruOp'.found
          /\ lruOp'.value = NoValue
          /\ UNCHANGED <<capacity, cache, list, entries>>]_vars

MissedInFilledCache ==
    /\ lruOp.op = "Get"
    /\ ~lruOp.found
    /\ Len(list) = 2
    /\ cache[lruOp.key] = NoElem

\* C26: the index map and the list hold the same keys, each key on one list element,
\* and the map sends every key to the element that carries it.
MapMatchesList ==
    /\ \A i, j \in 1..Len(list) : list[i] = list[j] => i = j
    /\ \A i \in 1..Len(list) :
          /\ entries[list[i]].key \in LruKeys
          /\ cache[entries[list[i]].key] = list[i]
    /\ \A k \in StoredKeys :
          /\ \E i \in 1..Len(list) : list[i] = cache[k]
          /\ entries[cache[k]].key = k
    /\ Cardinality(StoredKeys) = Len(list)

EvictedKeyLeftBoth ==
    /\ lruOp.evicted # NoKey
    /\ cache[lruOp.evicted] = NoElem
    /\ \A i \in 1..Len(list) : entries[list[i]].key # lruOp.evicted
    /\ Len(list) >= 1

\* work functions running in the pool, tasks holding a token of the semaphore, and
\* task goroutines started and not finished
RunningWork == {t \in Submits : submitted[t] = "running"}
HoldingToken == {t \in Tasks : tpc[t] = "running"}
LiveGoroutines == {t \in Tasks : tpc[t] \in {"started", "running"}}

\* C27: at most MaxWorkers work functions run in the WorkerPool at any time, and at
\* most MaxWorkers tasks are between acquiring and releasing the semaphore.
ConcurrencyBounded ==
    /\ Cardinality(RunningWork) <= MaxWorkers
    /\ RunningWork = {work[w] : w \in {x \in Workers : wpc[x] = "working"}}
    /\ Cardinality(HoldingToken) <= MaxWorkers
    /\ semaphore = Cardinality(HoldingToken)

AllSlotsBusy ==
    /\ Cardinality(RunningWork) = MaxWorkers
    /\ Len(workerChan) >= 1
    /\ Cardinality(HoldingToken) = MaxWorkers
    /\ \E t \in Tasks : tpc[t] = "started"

\* C28: in the semaphore variant a task's goroutine is started only after its slot
\* is acquired, so the goroutines started and not finished never number more than
\* MaxWorkers.
GoroutinesBounded == Cardinality(LiveGoroutines) <= MaxWorkers

\* C29: a work function handed to Submit after Stop has returned is never placed in
\* workerChan and never executed.
NoSubmitAfterStop ==
    \A t \in afterStop : submitted[t] \notin {"queued", "running", "done"}

\* a work function left in workerChan with every worker gone
Stranded(t) ==
    /\ submitted[t] = "queued"
    /\ \A w \in Workers : wpc[w] = "exited"

\* C30: the work functions queued when Stop was called share one fate: no execution
\* runs one of them and strands another.
QueuedShareFate ==
    \A t, u \in queuedAtStop :
       ~(submitted[t] \in {"running", "done"} /\ Stranded(u))

\* C31: every call of Submit comes to an end: its send on workerChan completes, also
\* when Stop is called before or during the call.
SubmitReturns ==
    \A t \in Submits : (submitted[t] = "sending") ~> (submitted[t] # "sending")

\* caller p starts a request attempt in this step
DidStartRequest(p) == pc[p] = "attempt" /\ pc'[p] = "inflight"

\* C33: while the breaker is Open and no more than ResetTimeout has passed since it
\* opened, no DoWithRetry call starts a request attempt, also not a call that passed
\* the breaker check earlier and is in its retry loop.
NoAttemptWhileOpen ==
    [][\A p \in Callers :
          (state = Open /\ now - openedAt <= ResetTimeout) => ~DidStartRequest(p)]_vars

\* C34: the state that follows Open is HalfOpen, never Closed.
OpenLeadsToHalfOpen == [][state = Open => state' \in {Open, HalfOpen}]_vars

\* C35: a DoWithRetry call that runs its breaker check more than ResetTimeout after
\* the breaker opened is admitted and makes the breaker HalfOpen, whatever failures
\* were reported while it was Open.
TimeoutFromOpening ==
    [][\A p \in Callers :
          (DidCheck(p) /\ state = Open /\ now - openedAt > ResetTimeout) =>
             /\ state' = HalfOpen
             /\ pc'[p] = "attempt"]_vars

\* C36: the step in which a call returns because its context was cancelled in a
\* backoff wait leaves failures, lastFailTime and state as they are, a HalfOpen
\* breaker stays HalfOpen, and the call has called neither recordSuccess nor
\* recordFailure since it began.
CancelledCallLeavesBreaker ==
    [][\A p \in Callers :
          (pc[p] = "wait" /\ pc'[p] = "done") =>
             /\ ret'[p] = "ctx_err"
             /\ failures' = failures
             /\ lastFailTime' = lastFailTime
             /\ state' = state
             /\ state = HalfOpen => state' = HalfOpen
             /\ hist'[p].nsucc = 0
             /\ hist'[p].nfail = 0
             /\ streak' = streak]_vars

CancelledTrialCall ==
    \E p \in Callers :
       /\ pc[p] = "done"
       /\ ret[p] = "ctx_err"
       /\ hist[p].cancelledInWait
       /\ hist[p].trial
       /\ state = HalfOpen

\* C37: on a closed pool nothing is sent on the channel and nothing received from
\* it: the pool stays empty, no call panics, a Get does not return nil without an
\* error, and a further Close changes nothing.
ClosedChannelUntouched ==
    [][/\ (lastOp'.op = "Get" /\ lastOp'.err = "nil") => lastOp'.conn # NoConn
       /\ lastOp'.err # "panic"
       /\ closed =>
             /\ pool = <<>> /\ pool' = <<>>
             /\ closed'
             /\ (lastOp'.op = "Close" /\ lastOp' # lastOp) =>
                   UNCHANGED <<conns, held, created, closedBy>>
             /\ (lastOp'.op = "Get" /\ lastOp' # lastOp) =>
                   /\ lastOp'.err = "closed"
                   /\ UNCHANGED <<conns, held, created, closedBy>>]_vars

ClosedAgainAfterPut ==
    /\ closed
    /\ lastOp.op = "Close"
    /\ \E h \in ConnIds : closedBy[h] = "PutClosed"
    /\ held # {}

\* C38: every connection the factory made is idle in the pool, held by a caller, or
\* closed: the pool lets go of no connection without closing it.
DroppedAreClosed ==
    \A h \in ConnIds :
       conns[h] \notin {"absent", "Shutdown"} => h \in held \cup idle

\* C39: a Get of k that returns (value, true) returns the value of the last Set of k,
\* at a time that is not after the expiration of that Set, whether or not cleanup ran
\* in between; a Set of k replaces the value and the expiration the map holds for k.
NoExpiredEntry ==
    [][/\ (cacheOp'.flip # cacheOp.flip /\ cacheOp'.op = "Get" /\ cacheOp'.found) =>
             /\ lastSet[cacheOp'.key] # NoItem
             /\ cnow <= lastSet[cacheOp'.key].expiration
             /\ cacheOp'.value = lastSet[cacheOp'.key].value
       /\ (cacheOp'.flip # cacheOp.flip /\ cacheOp'.op = "Set") =>
             /\ data'[cacheOp'.key].value = cacheOp'.value
             /\ data'[cacheOp'.key].expiration >= cnow
             /\ data'[cacheOp'.key] = lastSet'[cacheOp'.key]]_vars

ExpiredEntryRefused ==
    /\ cacheOp.op = "Get"
    /\ ~cacheOp.found
    /\ data[cacheOp.key] # NoItem
    /\ cnow > data[cacheOp.key].expiration

\* the parts of C32 that speak of order, ticks and the end of the loop
PacedByTicks ==
    /\ \A i \in 1..Len(processed) : processed[i] = i
    /\ Len(processed) <= ticksFired
    /\ rpc = "done" => Len(processed) = NumRequests

\* C32: the requests are processed in the order they were queued, never more of them
\* than ticks have fired, two successive ones at least one Interval apart, and the
\* loop ends only after all NumRequests were processed.
RateLimited ==
    /\ PacedByTicks
    /\ prevStart # NoTime => lastStart - prevStart >= Interval

\* every job is taken and answered at most once, no send finds its channel full,
\* and fanOutFanIn ends with exactly one result for each of the numJobs jobs
OneResultPerJob ==
    /\ \A j \in Jobs : takes[j] <= 1 /\ produced[j] <= takes[j]
    /\ mainpc = "send" /\ nextJob <= numJobs => Len(jobs) < numJobs
    /\ \A w \in FanWorkers : fanpc[w] = "work" => Len(results) < numJobs
    /\ Len(received) <= numJobs
    /\ mainpc = "done" =>
        /\ Len(received) = numJobs
        /\ \A j \in Jobs :
            /\ takes[j] = 1
            /\ produced[j] = 1
            /\ Cardinality({i \in 1..numJobs : received[i].job = j}) = 1

\* C40: in fanOutFanIn, whatever the interleaving of the workers, each job is taken
\* by exactly one worker and produces exactly one result, no send on jobs or results
\* is ever blocked, and fanOutFanIn receives exactly numJobs results and finishes.
FanOutFanInFinishes ==
    /\ []OneResultPerJob
    /\ <>(mainpc = "done")

\* fanOutFanIn has finished with results of more than one worker
FinishedByTwoWorkers ==
    /\ mainpc = "done"
    /\ \E i, k \in 1..Len(received) : received[i].worker # received[k].worker

====
